---- MODULE Spec2Model ----
(***************************************************************************)
(* The layered user configuration of ggshield: discovery of the global and *)
(* local .gitguardian.yaml files, validation, migration of the version-1   *)
(* format, merging, default-diff saving, and SecretConfig's ignored        *)
(* matches.                                                                *)
(*                                                                         *)
(* Encoding of YAML documents.  A key of a mapping is a tuple: <<>> when   *)
(* the key is absent, <<v>> when it is present with a value of the type    *)
(* the schema declares, and <<"!!str", s>> when it is present with a       *)
(* scalar string where the schema declares another type.  A document is    *)
(* [version, data]: the `version` key and the mapping of the other keys.   *)
(* Python's None is the string None; a path is a tuple <<dir, name>> and   *)
(* the absent path (config_path=None) is <<>>.                             *)
(***************************************************************************)
EXTENDS Integers, Sequences, FiniteSets, TLC

None == "<None>"
Absent == <<>>
NoPath == <<>>

IsAbsent(o) == Len(o) = 0
IsIllTyped(o) == Len(o) = 2
ToSet(seq) == {seq[i] : i \in 1..Len(seq)}

(***************************************************************************)
(* Constants of the program.                                               *)
(***************************************************************************)
CURRENT_CONFIG_VERSION == 2

GLOBAL_CONFIG_FILENAMES == <<".gitguardian.yml", ".gitguardian.yaml">>
LOCAL_CONFIG_PATHS == <<<<".", ".gitguardian.yml">>, <<".", ".gitguardian.yaml">>>>
DEFAULT_LOCAL_CONFIG_PATH == <<".", ".gitguardian.yaml">>

get_global_path(filename) == <<"~/.config/ggshield", filename>>

\* The table of api_to_dashboard_url on the API URLs the model uses.
api_to_dashboard_url(api_url) ==
    CASE api_url = "https://api.gitguardian.com" -> "https://dashboard.gitguardian.com"
      [] api_url = "https://api.eu1.gitguardian.com" -> "https://dashboard.eu1.gitguardian.com"
      [] OTHER -> api_url

(***************************************************************************)
(* The dataclasses, as their default-constructed instances.                *)
(***************************************************************************)
SecretConfig ==
    [show_secrets |-> FALSE,
     ignored_detectors |-> {},
     ignored_matches |-> <<>>,
     ignored_paths |-> {}]

IaCConfig ==
    [ignored_paths |-> {},
     ignored_policies |-> {},
     minimum_severity |-> "LOW"]

UserConfig ==
    [iac |-> IaCConfig,
     instance |-> None,
     exit_zero |-> FALSE,
     verbose |-> FALSE,
     allow_self_signed |-> FALSE,
     max_commits_for_hook |-> 50,
     secret |-> SecretConfig]

UserV1Config ==
    [instance |-> None,
     all_policies |-> FALSE,
     exit_zero |-> FALSE,
     matches_ignore |-> <<>>,
     paths_ignore |-> {},
     verbose |-> FALSE,
     allow_self_signed |-> FALSE,
     max_commits_for_hook |-> 50,
     ignore_default_excludes |-> FALSE,
     show_secrets |-> FALSE,
     banlisted_detectors |-> {}]

\* The leaf fields of a UserConfig and their values.
FieldNames ==
    {"instance", "exit_zero", "verbose", "allow_self_signed", "max_commits_for_hook",
     "secret.show_secrets", "secret.ignored_detectors", "secret.ignored_matches",
     "secret.ignored_paths", "iac.ignored_paths", "iac.ignored_policies",
     "iac.minimum_severity"}

SecretFields == {"show_secrets", "ignored_detectors", "ignored_matches", "ignored_paths"}
IaCFields == {"ignored_paths", "ignored_policies", "minimum_severity"}

(***************************************************************************)
(* Documents with no key.                                                  *)
(***************************************************************************)
EmptySecretData == [k \in SecretFields |-> Absent]
EmptyIaCData == [k \in IaCFields |-> Absent]

EmptyV2Data ==
    [instance |-> Absent, exit_zero |-> Absent, verbose |-> Absent,
     allow_self_signed |-> Absent, max_commits_for_hook |-> Absent,
     secret |-> Absent, iac |-> Absent]

EmptyV1Data ==
    [instance |-> Absent, api_url |-> Absent, all_policies |-> Absent,
     exit_zero |-> Absent, matches_ignore |-> Absent, paths_ignore |-> Absent,
     verbose |-> Absent, allow_self_signed |-> Absent,
     max_commits_for_hook |-> Absent, ignore_default_excludes |-> Absent,
     show_secrets |-> Absent, banlisted_detectors |-> Absent]

(***************************************************************************)
(* SecretConfig.__post_init__ and the schemas marshmallow_dataclass        *)
(* derives from the dataclasses: a missing key takes the field's default,  *)
(* a list loaded into a Set field becomes a set, a value of the wrong type *)
(* is a ValidationError.                                                   *)
(***************************************************************************)
post_init_ignored_match(match) == match

SecretConfigPostInit(secret) ==
    [secret EXCEPT !.ignored_matches =
        [i \in 1..Len(secret.ignored_matches) |->
            post_init_ignored_match(secret.ignored_matches[i])]]

LoadField(o, default) == IF IsAbsent(o) THEN default ELSE o[1]
LoadSetField(o, default) == IF IsAbsent(o) THEN default ELSE ToSet(o[1])

SectionInvalid(o) ==
    /\ ~IsAbsent(o)
    /\ \E k \in DOMAIN o[1] : IsIllTyped(o[1][k])

SecretConfigSchemaLoad(o) ==
    LET d == IF IsAbsent(o) THEN EmptySecretData ELSE o[1]
    IN  SecretConfigPostInit(
          [show_secrets |-> LoadField(d.show_secrets, SecretConfig.show_secrets),
           ignored_detectors |->
               LoadSetField(d.ignored_detectors, SecretConfig.ignored_detectors),
           ignored_matches |-> LoadField(d.ignored_matches, SecretConfig.ignored_matches),
           ignored_paths |-> LoadSetField(d.ignored_paths, SecretConfig.ignored_paths)])

IaCConfigSchemaLoad(o) ==
    LET d == IF IsAbsent(o) THEN EmptyIaCData ELSE o[1]
    IN  [ignored_paths |-> LoadSetField(d.ignored_paths, IaCConfig.ignored_paths),
         ignored_policies |-> LoadSetField(d.ignored_policies, IaCConfig.ignored_policies),
         minimum_severity |-> LoadField(d.minimum_severity, IaCConfig.minimum_severity)]

\* UserConfigSchema().load(data): [ok, obj]; ok = FALSE is a ValidationError.
UserConfigSchemaLoad(data) ==
    IF \/ \E k \in {"instance", "exit_zero", "verbose", "allow_self_signed",
                    "max_commits_for_hook"} : IsIllTyped(data[k])
       \/ SectionInvalid(data.secret)
       \/ SectionInvalid(data.iac)
    THEN [ok |-> FALSE, obj |-> UserConfig]
    ELSE [ok |-> TRUE,
          obj |-> [iac |-> IaCConfigSchemaLoad(data.iac),
                   instance |-> LoadField(data.instance, UserConfig.instance),
                   exit_zero |-> LoadField(data.exit_zero, UserConfig.exit_zero),
                   verbose |-> LoadField(data.verbose, UserConfig.verbose),
                   allow_self_signed |->
                       LoadField(data.allow_self_signed, UserConfig.allow_self_signed),
                   max_commits_for_hook |->
                       LoadField(data.max_commits_for_hook, UserConfig.max_commits_for_hook),
                   secret |-> SecretConfigSchemaLoad(data.secret)]]

\* An entry of matches_ignore is a bare string [str |-> h] or a mapping
\* [name |-> n, match |-> h]; the schema accepts only mappings.
IsStr(entry) == DOMAIN entry = {"str"}

\* UserV1ConfigSchema().load(data): [ok, obj].
UserV1ConfigSchemaLoad(data) ==
    IF \/ \E k \in DOMAIN data : IsIllTyped(data[k])
       \/ /\ ~IsAbsent(data.matches_ignore)
          /\ \E i \in 1..Len(data.matches_ignore[1]) : IsStr(data.matches_ignore[1][i])
    THEN [ok |-> FALSE, obj |-> UserV1Config]
    ELSE [ok |-> TRUE,
          obj |-> [instance |-> LoadField(data.instance, UserV1Config.instance),
                   all_policies |-> LoadField(data.all_policies, UserV1Config.all_policies),
                   exit_zero |-> LoadField(data.exit_zero, UserV1Config.exit_zero),
                   matches_ignore |->
                       LoadField(data.matches_ignore, UserV1Config.matches_ignore),
                   paths_ignore |-> LoadSetField(data.paths_ignore, UserV1Config.paths_ignore),
                   verbose |-> LoadField(data.verbose, UserV1Config.verbose),
                   allow_self_signed |->
                       LoadField(data.allow_self_signed, UserV1Config.allow_self_signed),
                   max_commits_for_hook |->
                       LoadField(data.max_commits_for_hook, UserV1Config.max_commits_for_hook),
                   ignore_default_excludes |->
                       LoadField(data.ignore_default_excludes,
                                 UserV1Config.ignore_default_excludes),
                   show_secrets |-> LoadField(data.show_secrets, UserV1Config.show_secrets),
                   banlisted_detectors |->
                       LoadSetField(data.banlisted_detectors,
                                    UserV1Config.banlisted_detectors)]]

(***************************************************************************)
(* UserV1Config: the migration of a version-1 document.                    *)
(***************************************************************************)
update_matches_ignore(data) ==
    IF IsAbsent(data.matches_ignore) \/ Len(data.matches_ignore[1]) = 0
    THEN data
    ELSE [data EXCEPT !.matches_ignore =
            <<[idx \in 1..Len(data.matches_ignore[1]) |->
                LET match == data.matches_ignore[1][idx]
                IN  IF IsStr(match)
                    THEN [name |-> "", match |-> match.str]
                    ELSE match]>>]

PopApiUrl_always(data) ==
    IF IsAbsent(data.api_url)
    THEN data
    ELSE [data EXCEPT !.api_url = Absent,
                      !.instance = <<api_to_dashboard_url(data.api_url[1])>>]

\* The first lines of load_v1: api_url is popped and becomes instance only
\* when the document has no instance key.
PopApiUrl(data) ==
    IF IsAbsent(data.api_url)
    THEN data
    ELSE IF IsAbsent(data.instance)
    THEN [data EXCEPT !.api_url = Absent,
                      !.instance = <<api_to_dashboard_url(data.api_url[1])>>]
    ELSE [data EXCEPT !.api_url = Absent]

\* UserV1Config.load_v1(data): [ok, obj] with obj a UserConfig.
load_v1(data) ==
    LET loaded == UserV1ConfigSchemaLoad(update_matches_ignore(PopApiUrl(data)))
        v1config == loaded.obj
        secret == SecretConfigPostInit(
                    [show_secrets |-> v1config.show_secrets,
                     ignored_detectors |-> v1config.banlisted_detectors,
                     ignored_matches |-> v1config.matches_ignore,
                     ignored_paths |-> v1config.paths_ignore])
    IN  IF ~loaded.ok
        THEN [ok |-> FALSE, obj |-> UserConfig]
        ELSE [ok |-> TRUE,
              obj |-> [iac |-> UserConfig.iac,
                       instance |-> v1config.instance,
                       exit_zero |-> v1config.exit_zero,
                       verbose |-> v1config.verbose,
                       allow_self_signed |-> v1config.allow_self_signed,
                       max_commits_for_hook |-> v1config.max_commits_for_hook,
                       secret |-> secret]]

(***************************************************************************)
(* update_from_other_instance(dst, src): every declared field of dst takes *)
(* the value src has for it, recursively into the nested dataclasses.      *)
(***************************************************************************)
update_from_other_instance(dst, src) ==
    [iac |-> [k \in DOMAIN dst.iac |-> src.iac[k]],
     instance |-> src.instance,
     exit_zero |-> src.exit_zero,
     verbose |-> src.verbose,
     allow_self_signed |-> src.allow_self_signed,
     max_commits_for_hook |-> src.max_commits_for_hook,
     secret |-> [k \in DOMAIN dst.secret |-> src.secret[k]]]

(***************************************************************************)
(* UserConfig._update_from_file.  load_yaml gives None for a missing or    *)
(* empty file; a falsy document is replaced by {"version": 2}.  The result *)
(* is [err, config]: err is "" when the call returns, else the class of    *)
(* the exception that leaves it, and config is the accumulator afterwards. *)
(***************************************************************************)
load_yaml(content) == content

Falsy(yaml) ==
    \/ IsAbsent(yaml)
    \/ /\ IsAbsent(yaml[1].version)
       /\ \A k \in DOMAIN yaml[1].data : IsAbsent(yaml[1].data[k])

_update_from_file_v2_fallback(self, content) ==
    LET yaml == load_yaml(content)
        data == IF Falsy(yaml)
                THEN [version |-> <<CURRENT_CONFIG_VERSION>>, data |-> EmptyV2Data]
                ELSE yaml[1]
        config_version == IF IsAbsent(data.version) THEN 1 ELSE data.version[1]
        loaded == IF config_version = 1
                  THEN load_v1(data.data)
                  ELSE UserConfigSchemaLoad(data.data)
    IN  IF ~loaded.ok
        THEN [err |-> "ParseError", config |-> self]
        ELSE [err |-> "", config |-> update_from_other_instance(self, loaded.obj)]

_update_from_file(self, content) ==
    LET yaml == load_yaml(content)
        data == IF Falsy(yaml)
                THEN [version |-> <<CURRENT_CONFIG_VERSION>>, data |-> EmptyV2Data]
                ELSE yaml[1]
        config_version == IF IsAbsent(data.version) THEN 1 ELSE data.version[1]
        loaded == IF config_version = 2
                  THEN UserConfigSchemaLoad(data.data)
                  ELSE load_v1(data.data)
    IN  IF config_version \notin {1, 2}
        THEN [err |-> "ClickException", config |-> self]
        ELSE IF ~loaded.ok
        THEN [err |-> "ParseError", config |-> self]
        ELSE [err |-> "", config |-> update_from_other_instance(self, loaded.obj)]

(***************************************************************************)
(* UserConfig.save: schema.dump, remove_common_dict_items against the dump *)
(* of a default instance, then the version key.  A set is dumped as a list *)
(* in the iteration order of the set, which is any order.                  *)
(***************************************************************************)
RECURSIVE Orders(_)
Orders(S) ==
    IF S = {}
    THEN {<<>>}
    ELSE UNION {{<<x>> \o s : s \in Orders(S \ {x})} : x \in S}

\* schema.dump(config): the documents the dump can be.
UserConfigSchemaDump(config) ==
    {[instance |-> <<config.instance>>,
      exit_zero |-> <<config.exit_zero>>,
      verbose |-> <<config.verbose>>,
      allow_self_signed |-> <<config.allow_self_signed>>,
      max_commits_for_hook |-> <<config.max_commits_for_hook>>,
      secret |-> <<[show_secrets |-> <<config.secret.show_secrets>>,
                    ignored_detectors |-> <<o[1]>>,
                    ignored_matches |-> <<config.secret.ignored_matches>>,
                    ignored_paths |-> <<o[2]>>]>>,
      iac |-> <<[ignored_paths |-> <<o[3]>>,
                 ignored_policies |-> <<o[4]>>,
                 minimum_severity |-> <<config.iac.minimum_severity>>]>>]
        : o \in Orders(config.secret.ignored_detectors)
                \X Orders(config.secret.ignored_paths)
                \X Orders(config.iac.ignored_paths)
                \X Orders(config.iac.ignored_policies)}

\* Whether a value of a document is itself a mapping.
IsDict(key) == key \in {"secret", "iac"}

RemoveCommonLeaves(dct, reference_dct) ==
    [k \in DOMAIN dct |-> IF dct[k] = reference_dct[k] THEN Absent ELSE dct[k]]

\* remove_common_dict_items(dct, reference_dct): the items of dct that
\* reference_dct does not hold with an equal value; a nested mapping is
\* pruned the same way and dropped when nothing of it remains.
remove_common_dict_items(dct, reference_dct) ==
    [k \in DOMAIN dct |->
        IF IsDict(k)
        THEN LET value == RemoveCommonLeaves(dct[k][1], reference_dct[k][1])
             IN  IF \A j \in DOMAIN value : IsAbsent(value[j])
                 THEN Absent
                 ELSE <<value>>
        ELSE IF dct[k] = reference_dct[k] THEN Absent ELSE dct[k]]

\* schema.dump(schema.load({}))
DefaultDct ==
    CHOOSE d \in UserConfigSchemaDump(UserConfigSchemaLoad(EmptyV2Data).obj) : TRUE

save_swapped(self) ==
    {[version |-> <<CURRENT_CONFIG_VERSION>>,
      data |-> remove_common_dict_items(DefaultDct, dct)]
        : dct \in UserConfigSchemaDump(self)}

save_unpruned(self) ==
    {[version |-> <<CURRENT_CONFIG_VERSION>>, data |-> dct]
        : dct \in UserConfigSchemaDump(self)}

\* UserConfig.save: the documents save_yaml is called with.
save(self) ==
    {[version |-> <<CURRENT_CONFIG_VERSION>>,
      data |-> remove_common_dict_items(dct, DefaultDct)]
        : dct \in UserConfigSchemaDump(self)}

(***************************************************************************)
(* SecretConfig.add_ignored_match                                          *)
(***************************************************************************)
add_ignored_match_append(ignored_matches, secret) == Append(ignored_matches, secret)

add_ignored_match(ignored_matches, secret) ==
    LET same == {i \in 1..Len(ignored_matches) : ignored_matches[i].match = secret.match}
    IN  IF same = {}
        THEN Append(ignored_matches, secret)
        ELSE LET first == CHOOSE i \in same : \A j \in same : i <= j
             IN  IF ignored_matches[first].name = ""
                 THEN [ignored_matches EXCEPT ![first].name = secret.name]
                 ELSE ignored_matches

(***************************************************************************)
(* Bounds and inputs.                                                      *)
(***************************************************************************)
MaxFiles == 2
MaxAdds == 2
MaxRuns == 2

CustomPath == <<"/etc", "custom.yaml">>
GlobalPaths == [i \in 1..Len(GLOBAL_CONFIG_FILENAMES) |-> get_global_path(GLOBAL_CONFIG_FILENAMES[i])]
Paths == ToSet(GlobalPaths) \cup ToSet(LOCAL_CONFIG_PATHS) \cup {CustomPath}
ExplicitPaths == {CustomPath, LOCAL_CONFIG_PATHS[1]}

IgnoredMatch(name, match) == [name |-> name, match |-> match]
BareHash(match) == [str |-> match]
IllTyped == <<"!!str", "not-a-list">>

Secrets == {IgnoredMatch("", "h1"), IgnoredMatch("x", "h1"), IgnoredMatch("y", "h2")}

Instances == {None, "https://dashboard.gitguardian.com"}
ApiUrls == {"https://api.gitguardian.com"}
Commits == {20, 50}
Severities == {"LOW", "HIGH"}
StrLists == {<<>>, <<"a">>, <<"b", "a">>, <<"a", "a">>}
MatchLists ==
    {<<>>,
     <<IgnoredMatch("", "h1")>>,
     <<IgnoredMatch("x", "h1"), IgnoredMatch("", "h2")>>,
     <<IgnoredMatch("", "h1"), IgnoredMatch("x", "h1")>>}
V1MatchLists ==
    {<<>>,
     <<BareHash("h1")>>,
     <<IgnoredMatch("x", "h2")>>,
     <<BareHash("h1"), IgnoredMatch("x", "h2"), BareHash("h3")>>,
     <<IgnoredMatch("", "h1"), BareHash("h1")>>}

SecretData(k, v) == <<[EmptySecretData EXCEPT ![k] = <<v>>]>>
IaCData(k, v) == <<[EmptyIaCData EXCEPT ![k] = <<v>>]>>

\* The version-2 mappings with one setting.
OneSettingV2 ==
    {[EmptyV2Data EXCEPT !.instance = <<v>>] : v \in Instances}
    \cup {[EmptyV2Data EXCEPT ![k] = <<v>>] :
            k \in {"exit_zero", "verbose", "allow_self_signed"}, v \in BOOLEAN}
    \cup {[EmptyV2Data EXCEPT !.max_commits_for_hook = <<v>>] : v \in Commits}
    \cup {[EmptyV2Data EXCEPT !.secret = SecretData("show_secrets", v)] : v \in BOOLEAN}
    \cup {[EmptyV2Data EXCEPT !.secret = SecretData(k, v)] :
            k \in {"ignored_detectors", "ignored_paths"}, v \in StrLists}
    \cup {[EmptyV2Data EXCEPT !.secret = SecretData("ignored_matches", v)] : v \in MatchLists}
    \cup {[EmptyV2Data EXCEPT !.iac = IaCData(k, v)] :
            k \in {"ignored_paths", "ignored_policies"}, v \in StrLists}
    \cup {[EmptyV2Data EXCEPT !.iac = IaCData("minimum_severity", v)] : v \in Severities}
    \cup {[EmptyV2Data EXCEPT !.secret = <<[EmptySecretData EXCEPT !.ignored_detectors = IllTyped]>>],
          [EmptyV2Data EXCEPT !.secret = <<EmptySecretData>>]}

\* The version-1 mappings with one setting; instance and api_url are the
\* two spellings of one setting and come alone or together.
OneSettingV1 ==
    {[EmptyV1Data EXCEPT !.instance = <<v>>] : v \in Instances}
    \cup {[EmptyV1Data EXCEPT !.api_url = <<v>>] : v \in ApiUrls}
    \cup {[EmptyV1Data EXCEPT !.instance = <<v>>, !.api_url = <<u>>] :
            v \in Instances, u \in ApiUrls}
    \cup {[EmptyV1Data EXCEPT ![k] = <<v>>] :
            k \in {"all_policies", "exit_zero", "verbose", "allow_self_signed",
                   "ignore_default_excludes", "show_secrets"}, v \in BOOLEAN}
    \cup {[EmptyV1Data EXCEPT !.max_commits_for_hook = <<v>>] : v \in Commits}
    \cup {[EmptyV1Data EXCEPT ![k] = <<v>>] :
            k \in {"paths_ignore", "banlisted_detectors"}, v \in StrLists}
    \cup {[EmptyV1Data EXCEPT !.matches_ignore = <<v>>] : v \in V1MatchLists}
    \cup {[EmptyV1Data EXCEPT !.banlisted_detectors = IllTyped]}

\* Mappings with several settings.
V2Top ==
    [EmptyV2Data EXCEPT !.instance = <<"https://dashboard.gitguardian.com">>,
                        !.exit_zero = <<TRUE>>, !.verbose = <<TRUE>>,
                        !.allow_self_signed = <<TRUE>>, !.max_commits_for_hook = <<20>>]
V2Nested ==
    [EmptyV2Data EXCEPT
        !.exit_zero = <<FALSE>>,
        !.secret = <<[show_secrets |-> <<TRUE>>, ignored_detectors |-> <<<<"b", "a">>>>,
                      ignored_matches |-> <<<<IgnoredMatch("", "h1")>>>>,
                      ignored_paths |-> <<<<"a", "a">>>>]>>,
        !.iac = <<[ignored_paths |-> <<<<"b">>>>, ignored_policies |-> <<<<"a", "b">>>>,
                   minimum_severity |-> <<"HIGH">>]>>]
V2Duplicate ==
    [EmptyV2Data EXCEPT
        !.secret = SecretData("ignored_matches",
                              <<IgnoredMatch("", "h1"), IgnoredMatch("x", "h1")>>)]
V2Invalid ==
    [EmptyV2Data EXCEPT !.verbose = <<TRUE>>,
        !.secret = <<[EmptySecretData EXCEPT !.ignored_detectors = IllTyped]>>]
V1Flat ==
    [EmptyV1Data EXCEPT
        !.api_url = <<"https://api.gitguardian.com">>, !.all_policies = <<TRUE>>,
        !.exit_zero = <<TRUE>>, !.show_secrets = <<TRUE>>,
        !.matches_ignore = <<<<BareHash("h1"), IgnoredMatch("x", "h2")>>>>,
        !.paths_ignore = <<<<"a", "b">>>>, !.banlisted_detectors = <<<<"b">>>>]
V1Both ==
    [EmptyV1Data EXCEPT
        !.instance = <<"https://dashboard.gitguardian.com">>,
        !.api_url = <<"https://api.eu1.gitguardian.com">>, !.verbose = <<TRUE>>,
        !.allow_self_signed = <<TRUE>>, !.max_commits_for_hook = <<20>>,
        !.ignore_default_excludes = <<TRUE>>]

Doc(version, data) == [version |-> version, data |-> data]
EmptyFile == Doc(Absent, EmptyV1Data)

\* The documents of the files at the discovery locations.
TierDocs ==
    {EmptyFile,
     Doc(<<2>>, V2Top), Doc(<<2>>, V2Nested), Doc(<<2>>, V2Duplicate),
     Doc(<<2>>, V2Invalid), Doc(<<99>>, V2Top),
     Doc(Absent, V1Flat), Doc(<<1>>, V1Both)}

\* The documents of a single file: one setting, under each version tag.
SingleDocs ==
    TierDocs
    \cup {Doc(v, d) : v \in {<<2>>, <<99>>}, d \in OneSettingV2 \cup {EmptyV2Data}}
    \cup {Doc(v, d) : v \in {Absent, <<1>>}, d \in OneSettingV1 \cup {EmptyV1Data}}

(***************************************************************************)
(* State.                                                                  *)
(***************************************************************************)
VARIABLES
    files,        \* path -> <<>> (no file) or <<document>>
    orig,         \* the files when the first process started
    config_path,  \* the config_path argument of load
    pc,           \* "start", "global_done", "loaded", "failed", "saved"
    user_config,  \* the UserConfig being loaded, then the loaded one
    ret_path,     \* the path load returned
    err,          \* the exception that ended load, "" when none
    before,       \* user_config when _update_from_file was last called
    last_path,    \* the path _update_from_file was last called with
    read_paths,   \* the paths _update_from_file was called with in this run
    run,          \* the number of the process run
    prev_config,  \* user_config when the previous run ended
    adds,         \* the number of add_ignored_match calls
    last_add      \* <<secret>> of the latest add_ignored_match call of this run

vars == <<files, orig, config_path, pc, user_config, ret_path, err, before,
          last_path, read_paths, run, prev_config, adds, last_add>>

exists(path) == ~IsAbsent(files[path])

\* The first path of the sequence that exists, <<>> when none does.
FirstExisting(paths) ==
    LET found == {i \in 1..Len(paths) : exists(paths[i])}
    IN  IF found = {}
        THEN NoPath
        ELSE paths[CHOOSE i \in found : \A j \in found : i <= j]

Start ==
    /\ pc = "start"
    /\ user_config = UserConfig
    /\ ret_path = NoPath
    /\ err = ""
    /\ before = UserConfig
    /\ last_path = NoPath
    /\ read_paths = {}
    /\ last_add = <<>>

InitCommon ==
    /\ orig = files
    /\ Start
    /\ run = 1
    /\ prev_config = UserConfig
    /\ adds = 0

\* Files at the discovery locations and at the custom path.
Init ==
    /\ \E existing \in SUBSET Paths :
         /\ Cardinality(existing) <= MaxFiles
         /\ \E content \in [existing -> TierDocs] :
              files = [p \in Paths |-> IF p \in existing THEN <<content[p]>> ELSE <<>>]
    /\ config_path \in {NoPath} \cup ExplicitPaths
    /\ InitCommon

\* One file, given by its path.
InitDoc ==
    /\ \E content \in {<<>>} \cup {<<d>> : d \in SingleDocs} :
         files = [p \in Paths |-> IF p = CustomPath THEN content ELSE <<>>]
    /\ config_path = CustomPath
    /\ InitCommon

(***************************************************************************)
(* UserConfig.load, one action per call of _update_from_file.              *)
(***************************************************************************)
\* self._update_from_file(path) on the accumulator.
Update(path, next_pc) ==
    LET r == _update_from_file(user_config, files[path])
    IN  /\ user_config' = r.config
        /\ err' = r.err
        /\ before' = user_config
        /\ last_path' = path
        /\ read_paths' = read_paths \cup {path}
        /\ pc' = IF r.err = "" THEN next_pc ELSE "failed"

\* `if config_path:` is a test of truth: None and "" both go on to discovery.
\* The paths given here are never empty, so the test is config_path # NoPath.
LoadExplicit ==
    /\ pc = "start"
    /\ config_path # NoPath
    /\ Update(config_path, "loaded")
    /\ ret_path' = IF err' = "" THEN config_path ELSE ret_path
    /\ UNCHANGED <<files, orig, config_path, run, prev_config, adds, last_add>>

LoadGlobal_always ==
    /\ pc = "start"
    /\ LET path == FirstExisting(GlobalPaths)
       IN  IF path = NoPath
           THEN /\ pc' = "global_done"
                /\ UNCHANGED <<user_config, err, before, last_path, read_paths>>
           ELSE Update(path, "global_done")
    /\ UNCHANGED <<files, orig, config_path, ret_path, run, prev_config, adds, last_add>>

LoadGlobal ==
    /\ pc = "start"
    /\ config_path = NoPath
    /\ LET path == FirstExisting(GlobalPaths)
       IN  IF path = NoPath
           THEN /\ pc' = "global_done"
                /\ UNCHANGED <<user_config, err, before, last_path, read_paths>>
           ELSE Update(path, "global_done")
    /\ UNCHANGED <<files, orig, config_path, ret_path, run, prev_config, adds, last_add>>

LoadLocal_unread ==
    /\ pc = "global_done"
    /\ LET path == FirstExisting(LOCAL_CONFIG_PATHS)
       IN  /\ pc' = "loaded"
           /\ ret_path' = IF path # NoPath
                          THEN path
                          ELSE IF config_path = NoPath
                          THEN DEFAULT_LOCAL_CONFIG_PATH
                          ELSE config_path
           /\ UNCHANGED <<user_config, err, before, last_path, read_paths>>
    /\ UNCHANGED <<files, orig, config_path, run, prev_config, adds, last_add>>

LoadLocal ==
    /\ pc = "global_done"
    /\ LET path == FirstExisting(LOCAL_CONFIG_PATHS)
       IN  IF path = NoPath
           THEN /\ pc' = "loaded"
                /\ ret_path' = IF config_path = NoPath
                               THEN DEFAULT_LOCAL_CONFIG_PATH
                               ELSE config_path
                /\ UNCHANGED <<user_config, err, before, last_path, read_paths>>
           ELSE /\ Update(path, "loaded")
                /\ ret_path' = IF err' = "" THEN path ELSE ret_path
    /\ UNCHANGED <<files, orig, config_path, run, prev_config, adds, last_add>>

(***************************************************************************)
(* SecretConfig.add_ignored_match on the loaded configuration.             *)
(***************************************************************************)
AddIgnoredMatch ==
    /\ pc = "loaded"
    /\ adds < MaxAdds
    /\ \E secret \in Secrets :
         /\ user_config' = [user_config EXCEPT !.secret.ignored_matches =
                               add_ignored_match(@, secret)]
         /\ last_add' = <<secret>>
    /\ adds' = adds + 1
    /\ UNCHANGED <<files, orig, config_path, pc, ret_path, err, before, last_path,
                   read_paths, run, prev_config>>

(***************************************************************************)
(* config_update_cmd: config.user_config.save(config._config_path), with   *)
(* the configuration and the path load returned.                           *)
(***************************************************************************)
config_update_cmd ==
    /\ pc = "loaded"
    /\ \E dct \in save(user_config) :
         files' = [files EXCEPT ![ret_path] = <<dct>>]
    /\ pc' = "saved"
    /\ UNCHANGED <<orig, config_path, user_config, ret_path, err, before, last_path,
                   read_paths, run, prev_config, adds, last_add>>

\* The process ends and the command line is run again: load starts over
\* on the files as they are now.
Restart ==
    /\ pc = "saved"
    /\ run < MaxRuns
    /\ run' = run + 1
    /\ prev_config' = user_config
    /\ pc' = "start"
    /\ user_config' = UserConfig
    /\ ret_path' = NoPath
    /\ err' = ""
    /\ before' = UserConfig
    /\ last_path' = NoPath
    /\ read_paths' = {}
    /\ last_add' = <<>>
    /\ UNCHANGED <<files, orig, config_path, adds>>

Next ==
    \/ LoadExplicit
    \/ LoadGlobal
    \/ LoadLocal
    \/ config_update_cmd
    \/ Restart

Spec == Init /\ [][Next]_vars

NextDoc ==
    \/ LoadExplicit
    \/ AddIgnoredMatch
    \/ config_update_cmd
    \/ Restart

SpecDoc == InitDoc /\ [][NextDoc]_vars

(***************************************************************************)
(* What a file says about a field, read off the document itself.           *)
(***************************************************************************)
Get(config, f) ==
    CASE f = "instance" -> config.instance
      [] f = "exit_zero" -> config.exit_zero
      [] f = "verbose" -> config.verbose
      [] f = "allow_self_signed" -> config.allow_self_signed
      [] f = "max_commits_for_hook" -> config.max_commits_for_hook
      [] f = "secret.show_secrets" -> config.secret.show_secrets
      [] f = "secret.ignored_detectors" -> config.secret.ignored_detectors
      [] f = "secret.ignored_matches" -> config.secret.ignored_matches
      [] f = "secret.ignored_paths" -> config.secret.ignored_paths
      [] f = "iac.ignored_paths" -> config.iac.ignored_paths
      [] f = "iac.ignored_policies" -> config.iac.ignored_policies
      [] f = "iac.minimum_severity" -> config.iac.minimum_severity

HasKeys(content) ==
    /\ ~IsAbsent(content)
    /\ \/ ~IsAbsent(content[1].version)
       \/ \E k \in DOMAIN content[1].data : ~IsAbsent(content[1].data[k])

IsV1(content) == HasKeys(content) /\ content[1].version \in {Absent, <<1>>}
IsV2(content) == HasKeys(content) /\ content[1].version = <<2>>
IsOtherVersion(content) == HasKeys(content) /\ content[1].version \notin {Absent, <<1>>, <<2>>}

\* The key of a version-1 document that gives field f, "" when none does.
V1Key(f) ==
    CASE f = "instance" -> "instance"
      [] f = "exit_zero" -> "exit_zero"
      [] f = "verbose" -> "verbose"
      [] f = "allow_self_signed" -> "allow_self_signed"
      [] f = "max_commits_for_hook" -> "max_commits_for_hook"
      [] f = "secret.show_secrets" -> "show_secrets"
      [] f = "secret.ignored_detectors" -> "banlisted_detectors"
      [] f = "secret.ignored_matches" -> "matches_ignore"
      [] f = "secret.ignored_paths" -> "paths_ignore"
      [] OTHER -> ""

\* The key <<section, key>> of a version-2 document that gives field f.
V2Key(f) ==
    CASE f = "secret.show_secrets" -> <<"secret", "show_secrets">>
      [] f = "secret.ignored_detectors" -> <<"secret", "ignored_detectors">>
      [] f = "secret.ignored_matches" -> <<"secret", "ignored_matches">>
      [] f = "secret.ignored_paths" -> <<"secret", "ignored_paths">>
      [] f = "iac.ignored_paths" -> <<"iac", "ignored_paths">>
      [] f = "iac.ignored_policies" -> <<"iac", "ignored_policies">>
      [] f = "iac.minimum_severity" -> <<"iac", "minimum_severity">>
      [] OTHER -> <<"", f>>

\* The entry of a version-2 document for field f: <<>> or <<value>>.
V2Entry(data, f) ==
    LET key == V2Key(f)
    IN  IF key[1] = ""
        THEN data[key[2]]
        ELSE IF IsAbsent(data[key[1]])
        THEN Absent
        ELSE data[key[1]][1][key[2]]

SetFields ==
    {"secret.ignored_detectors", "secret.ignored_paths", "iac.ignored_paths",
     "iac.ignored_policies"}

\* Whether the file sets field f.
Sets(content, f) ==
    CASE IsV2(content) -> ~IsAbsent(V2Entry(content[1].data, f))
      [] IsV1(content) ->
            \/ V1Key(f) # "" /\ ~IsAbsent(content[1].data[V1Key(f)])
            \/ f = "instance" /\ ~IsAbsent(content[1].data.api_url)
      [] OTHER -> FALSE

NamedMatches(entries) ==
    [i \in 1..Len(entries) |->
        IF IsStr(entries[i]) THEN IgnoredMatch("", entries[i].str) ELSE entries[i]]

\* The value the file gives field f, for a file that sets f.
ValueIn(content, f) ==
    LET data == content[1].data
    IN  IF IsV2(content)
        THEN IF f \in SetFields
             THEN ToSet(V2Entry(data, f)[1])
             ELSE V2Entry(data, f)[1]
        ELSE CASE f = "instance" ->
                    IF ~IsAbsent(data.instance)
                    THEN data.instance[1]
                    ELSE api_to_dashboard_url(data.api_url[1])
               [] f = "secret.ignored_matches" -> NamedMatches(data.matches_ignore[1])
               [] f \in SetFields -> ToSet(data[V1Key(f)][1])
               [] OTHER -> data[V1Key(f)][1]

\* The value of field f in a configuration loaded from this file alone.
Alone(content, f) ==
    IF Sets(content, f) THEN ValueIn(content, f) ELSE Get(UserConfig, f)

GlobalFile == FirstExisting(GlobalPaths)
LocalFile == FirstExisting(LOCAL_CONFIG_PATHS)
GlobalSets(f) == GlobalFile # NoPath /\ Sets(files[GlobalFile], f)
LocalSets(f) == LocalFile # NoPath /\ Sets(files[LocalFile], f)
Discovered == pc = "loaded" /\ config_path = NoPath

(***************************************************************************)
(* C1: load() without a path merges the global file, then the local file:  *)
(* a field only the local file sets has the local file's value, a field    *)
(* neither file sets has the default of UserConfig, and the local file is   *)
(* the last one read.                                                      *)
(***************************************************************************)
C1_LocalOverGlobal ==
    Discovered =>
        /\ LocalFile # NoPath => last_path = LocalFile
        /\ \A f \in FieldNames :
            /\ (LocalSets(f) /\ ~GlobalSets(f)) =>
                    Get(user_config, f) = ValueIn(files[LocalFile], f)
            /\ (~LocalSets(f) /\ ~GlobalSets(f)) =>
                    Get(user_config, f) = Get(UserConfig, f)

C1_Witness ==
    /\ Discovered
    /\ GlobalFile # NoPath
    /\ GlobalSets("exit_zero")
    /\ LocalSets("iac.minimum_severity")
    /\ ~GlobalSets("iac.minimum_severity")
    /\ user_config.iac.minimum_severity = "HIGH"

(***************************************************************************)
(* C2: a field the global file sets to a value other than the default and  *)
(* the existing local file does not mention keeps the global file's value   *)
(* in the configuration load() returns.                                     *)
(***************************************************************************)
C2_UnsetFieldsIntact ==
    Discovered =>
        \A f \in FieldNames :
            (/\ GlobalSets(f)
             /\ ValueIn(files[GlobalFile], f) # Get(UserConfig, f)
             /\ LocalFile # NoPath
             /\ ~LocalSets(f)) =>
                Get(user_config, f) = ValueIn(files[GlobalFile], f)

(***************************************************************************)
(* C3: a configuration loaded from a version-2 document, saved and loaded  *)
(* again from the saved document is the same configuration.                *)
(***************************************************************************)
C3_RoundTrip ==
    (/\ run > 1
     /\ pc = "loaded"
     /\ adds = 0
     /\ IsV2(orig[config_path])) =>
        user_config = prev_config

C3_Witness ==
    /\ run > 1
    /\ pc = "loaded"
    /\ adds = 0
    /\ IsV2(orig[config_path])
    /\ user_config.secret.ignored_detectors = {"a", "b"}
    /\ files[config_path] # orig[config_path]

(***************************************************************************)
(* C4: the document save() writes always has version 2, and for a          *)
(* configuration whose fields all hold their defaults it has no other key. *)
(***************************************************************************)
C4_SavedDocument ==
    pc = "saved" =>
        /\ ~IsAbsent(files[ret_path])
        /\ files[ret_path][1].version = <<2>>
        /\ user_config = UserConfig => files[ret_path][1] = Doc(<<2>>, EmptyV2Data)

C4_Witness ==
    /\ pc = "saved"
    /\ user_config = UserConfig
    /\ HasKeys(orig[ret_path])
    /\ files[ret_path] = <<Doc(<<2>>, EmptyV2Data)>>

(***************************************************************************)
(* C5: loading a file whose version is present and neither 1 nor 2 fails   *)
(* (click.ClickException, the unsupported-version error) and leaves the    *)
(* configuration as it was before _update_from_file was called.            *)
(***************************************************************************)
C5_UnsupportedVersion ==
    (last_path # NoPath /\ IsOtherVersion(files[last_path])) =>
        /\ pc = "failed"
        /\ err = "ClickException"
        /\ user_config = before

C5_Witness ==
    /\ pc = "failed"
    /\ err = "ClickException"
    /\ last_path = LocalFile
    /\ IsOtherVersion(files[last_path])
    /\ user_config = before
    /\ before # UserConfig

(***************************************************************************)
(* C6: load() with an explicit path reads no other file, returns that path *)
(* and returns the configuration of the file at that path alone.           *)
(***************************************************************************)
C6_ExplicitPathOnly ==
    config_path # NoPath =>
        /\ read_paths \subseteq {config_path}
        /\ pc # "global_done"
        /\ pc = "loaded" =>
            /\ ret_path = config_path
            /\ \A f \in FieldNames :
                 Get(user_config, f) = Alone(files[config_path], f)

C6_Witness ==
    /\ config_path = CustomPath
    /\ pc = "loaded"
    /\ \E p \in Paths \ {CustomPath} : Sets(files[p], "exit_zero")
    /\ ~Sets(files[CustomPath], "exit_zero")
    /\ Sets(files[CustomPath], "iac.minimum_severity")
    /\ user_config.exit_zero = FALSE

(***************************************************************************)
(* C7: after the update command, every version-1 file load() read holds a  *)
(* version-2 document, and loading again gives the configuration the       *)
(* version-1 files gave.                                                   *)
(***************************************************************************)
C7_UpdateInPlace ==
    /\ (pc = "saved" /\ run = 1) =>
            \A p \in read_paths : IsV1(orig[p]) => IsV2(files[p])
    /\ (pc = "loaded" /\ run = 2 /\ \E p \in read_paths : IsV1(orig[p])) =>
            user_config = prev_config

(***************************************************************************)
(* C8: add_ignored_match appends the secret when no entry has its match;   *)
(* otherwise the list keeps its length and the first entry with that match *)
(* takes the secret's name if and only if its own name is empty.           *)
(***************************************************************************)
C8_AddIgnoredMatch ==
    [][adds' = adds + 1 =>
        LET old == user_config.secret.ignored_matches
            new == user_config'.secret.ignored_matches
            secret == last_add'[1]
            same == {i \in 1..Len(old) : old[i].match = secret.match}
        IN  IF same = {}
            THEN new = old \o <<secret>>
            ELSE /\ Len(new) = Len(old)
                 /\ \A i \in 1..Len(old) :
                      /\ new[i].match = old[i].match
                      /\ new[i].name =
                            IF i \in same /\ (\A j \in same : i <= j) /\ old[i].name = ""
                            THEN secret.name
                            ELSE old[i].name]_vars

C8_Witness ==
    /\ IsAbsent(orig[config_path])
    /\ run = 1
    /\ adds = 2
    /\ last_add = <<IgnoredMatch("", "h1")>>
    /\ user_config.secret.ignored_matches = <<IgnoredMatch("x", "h1")>>

(***************************************************************************)
(* C9: load_v1: instance is the document's instance, else the dashboard    *)
(* URL of api_url; bare hashes of matches_ignore get the name "" and the   *)
(* other entries pass in order; banlisted_detectors, paths_ignore and      *)
(* show_secrets go to the secret section; all_policies and                 *)
(* ignore_default_excludes change nothing; iac has its defaults.           *)
(***************************************************************************)
C9_LoadV1 ==
    (/\ pc = "loaded"
     /\ run = 1
     /\ adds = 0
     /\ IsV1(orig[config_path])) =>
        LET data == orig[config_path][1].data
            Of(key, default) == IF IsAbsent(data[key]) THEN default ELSE data[key][1]
        IN  /\ user_config.instance =
                  IF ~IsAbsent(data.instance)
                  THEN data.instance[1]
                  ELSE IF ~IsAbsent(data.api_url)
                  THEN api_to_dashboard_url(data.api_url[1])
                  ELSE None
            /\ user_config.secret.ignored_matches = NamedMatches(Of("matches_ignore", <<>>))
            /\ user_config.secret.ignored_detectors = ToSet(Of("banlisted_detectors", <<>>))
            /\ user_config.secret.ignored_paths = ToSet(Of("paths_ignore", <<>>))
            /\ user_config.secret.show_secrets = Of("show_secrets", FALSE)
            /\ user_config.exit_zero = Of("exit_zero", FALSE)
            /\ user_config.verbose = Of("verbose", FALSE)
            /\ user_config.allow_self_signed = Of("allow_self_signed", FALSE)
            /\ user_config.max_commits_for_hook = Of("max_commits_for_hook", 50)
            /\ user_config.iac = IaCConfig

C9_Witness ==
    /\ pc = "loaded"
    /\ run = 1
    /\ adds = 0
    /\ IsV1(orig[config_path])
    /\ orig[config_path][1].data.api_url = <<"https://api.eu1.gitguardian.com">>
    /\ orig[config_path][1].data.instance = <<"https://dashboard.gitguardian.com">>
    /\ user_config.instance = "https://dashboard.gitguardian.com"

(***************************************************************************)
(* C10: ignored_matches never holds two entries with the same match.       *)
(***************************************************************************)
C10_OneEntryPerMatch ==
    LET m == user_config.secret.ignored_matches
    IN  \A i, j \in 1..Len(m) : m[i].match = m[j].match => i = j

====
